---------------------------- MODULE Spec2Model ----------------------------
(***************************************************************************)
(* Model of LatticeBoltzmann::Lattice (src/LatticeBoltzmann/Lattice.cpp):  *)
(* the controller thread running Simulate(), the worker threads running    *)
(* CollideAndStream(), the hand-rolled barrier (wakeup / processed), the   *)
(* column partition, Init(), GetResults() and a reader of the results.     *)
(*                                                                         *)
(* A distribution value is not a number here but the name of the           *)
(* computation that produced it: <<"zero", 0>>, <<"init", 0>> (Cell::Init),*)
(* <<"dflt", 0>> (a default-constructed Cell), <<"kern", e>> (streamed by  *)
(* the kernel in pass p from an up-to-date cell), <<"io", e>> (set by the  *)
(* inlet/outlet handler in pass p from up-to-date values) and <<"bad", e>> *)
(* (computed in pass p from a value that the sequential execution would    *)
(* not have read), where e is p modulo 3: that tells apart the values of   *)
(* a pass, of the pass before it (the current grid) and of two passes      *)
(* before it (what the work grid still holds).                             *)
(***************************************************************************)
EXTENDS Integers, Sequences, FiniteSets, TLC

(***************************************************************************)
(* Bounds of the model.                                                    *)
(***************************************************************************)
MaxThreads == 3
MaxCols == 3
MaxRows == 3
MaxSteps == 2
MaxRefresh == 2

(***************************************************************************)
(* Program constants.                                                      *)
(***************************************************************************)
\* the 'warmup' interval of the step loop: "step > 2000"
Warmup == 2000

\* The width of unsigned int.
StepBits == 32

VARIABLES
    \* configuration (public members of Lattice, constant during a behaviour)
    numThreads, refreshSteps, boundaryConditions, latticeObstacles, rows, cols,
    \* the continue-simulation flag
    simulate,
    \* the barrier
    wakeup, processed,
    \* the controller thread: position, the caller of Init(), locals of Simulate()
    pc, ret, step, t, strideStart, workStride,
    \* the worker threads: position and arguments
    wpc, startCol, endCol,
    \* the two grids
    lattice, latticeWork,
    \* the Results Matrix, its lock, the loop position of GetResults()
    results, resMutex, rj,
    \* the external reader: position and the copy it reads
    rpc, snap,
    \* bookkeeping of the model: SignalMoreData calls since processed was last
    \* set to 0
    signals,
    \* the result type (a public member of Lattice)
    resultsType,
    \* the cells GetResults() read last as the row and the column neighbour
    vx, vy,
    \* bookkeeping of the model, per run of Simulate(): the kernel passes of
    \* each worker; and, counted while the flag is false, the returns of
    \* WaitForWork() of each worker, the swaps and the WakeUp() calls
    passes, stopWakes, stopSwaps, stopWakeUps,
    \* bookkeeping of the model: the iterations of the step loop since the last
    \* GetResults(), and whether an iteration past the warm-up has been seen
    sinceResults, warmedUp

vars == <<numThreads, refreshSteps, boundaryConditions, latticeObstacles, rows, cols,
          simulate, wakeup, processed, pc, ret, step, t, strideStart, workStride,
          wpc, startCol, endCol, lattice, latticeWork, results, resMutex, rj,
          rpc, snap, signals, resultsType, vx, vy, passes, stopWakes, stopSwaps,
          stopWakeUps, sinceResults, warmedUp>>

config == <<numThreads, refreshSteps, boundaryConditions, latticeObstacles, rows, cols,
            resultsType>>

barrier == <<wakeup, processed, signals>>

workers == <<wpc, startCol, endCol>>

locals == <<ret, step, t, strideStart, workStride>>

grids == <<lattice, latticeWork>>

output == <<results, resMutex, rj>>

reader == <<rpc, snap>>

lookups == <<vx, vy>>

counts == <<passes, stopWakes, stopSwaps, stopWakeUps>>

cadence == <<sinceResults, warmedUp>>

history == <<lookups, counts, cadence>>

ThreadIds == 0 .. (MaxThreads - 1)

Threads == 0 .. (numThreads - 1)

Cells == (0 .. (rows - 1)) \X (0 .. (cols - 1))

(***************************************************************************)
(* Cells and grids.  A cell is <<i, j>>: row i, column j, as in            *)
(* lattice(i, j).  A direction is <<di, dj>>, one of the 9 of D2Q9.        *)
(***************************************************************************)
Dirs == {-1, 0, 1} \X {-1, 0, 1}

Reverse(d) == <<0 - d[1], 0 - d[2]>>

UniformCell(v) == [d \in Dirs |-> v]

\* density = { 0, 0, 0, 0, 0, 0, 0, 0, 0 }
ZeroCell == UniformCell(<<"zero", 0>>)

\* Cell::Init()
InitialCell == UniformCell(<<"init", 0>>)

\* A cell of CellLattice(rows, cols)
DefaultCell == UniformCell(<<"dflt", 0>>)

\* A condition that zeroes the first and the last row under every boundary
\* condition.
IsSolidAtEveryEdge(i, j) ==
    \/ <<i, j>> \in latticeObstacles
    \/ i = 0 \/ i = rows - 1

\* The condition under which Init() zeroes cell (i, j).
IsSolid(i, j) ==
    \/ <<i, j>> \in latticeObstacles
    \/ boundaryConditions # "Periodic" /\ (i = 0 \/ i = rows - 1)

\* The cell Init() leaves at (i, j).
InitCell(i, j) == IF IsSolid(i, j) THEN ZeroCell ELSE InitialCell

\* The grid Init() builds.
InitLattice == [c \in Cells |-> InitCell(c[1], c[2])]

\* Eigen's Matrix::Zero(rows, cols)
ZeroMatrix == [c \in Cells |-> 0]

(***************************************************************************)
(* The kernel and the inlet/outlet handler, as the design describes them.  *)
(***************************************************************************)
\* Where CollideAndStreamCell(x = c[2], y = c[1]) streams direction d: the
\* neighbour cell, wrapped around the grid (rows only when Periodic), or back
\* into c in the reverse direction when the neighbour is solid or off an edge.
StreamTarget(c, d) ==
    LET j == (c[2] + d[2]) % cols
        i0 == c[1] + d[1]
        i == IF boundaryConditions = "Periodic" THEN i0 % rows ELSE i0
    IN  IF i < 0 \/ i >= rows \/ IsSolid(i, j)
        THEN <<c, Reverse(d)>>
        ELSE <<<<i, j>>, d>>

\* The cell whose kernel call writes location <<c, d>> of the work grid, c a
\* fluid cell: the neighbour that streams d into c, or else c itself, whose
\* direction Reverse(d) is sent back.
StreamSource(c, d) ==
    LET j == (c[2] - d[2]) % cols
        i0 == c[1] - d[1]
        i == IF boundaryConditions = "Periodic" THEN i0 % rows ELSE i0
    IN  IF i >= 0 /\ i < rows /\ StreamTarget(<<i, j>>, d) = <<c, d>> /\ ~IsSolid(i, j)
        THEN <<i, j>>
        ELSE c

\* The cells the inlet/outlet handler treats: the fluid cells of column 0 and
\* of column cols - 1.
IsEdgeCell(c) == ~IsSolid(c[1], c[2]) /\ (c[2] = 0 \/ c[2] = cols - 1)

\* The value the sequential execution of p passes leaves in a fluid cell.
Expected(c, p) ==
    IF p = 0 THEN <<"init", 0>>
    ELSE IF IsEdgeCell(c) THEN <<"io", p % 3>> ELSE <<"kern", p % 3>>

UpToDate(grid, c, p) == \A d \in Dirs : grid[c][d] = Expected(c, p)

\* The post-collision value of cell c in pass p, computed from the current grid.
Collided(c, p) ==
    IF UpToDate(lattice, c, p - 1) THEN <<"kern", p % 3>> ELSE <<"bad", p % 3>>

\* The rows for which one iteration of the loop over x calls the kernel, in order.
KernelRows ==
    <<0>> \o (IF rows > 2 THEN [k \in 1 .. (rows - 2) |-> k] ELSE <<>>) \o <<rows - 1>>

\* The cells for which the loop over x = first .. last - 1 calls the kernel.
KernelCells(first, last) ==
    {c \in Cells : first <= c[2] /\ c[2] < last
                   /\ \E k \in DOMAIN KernelRows : KernelRows[k] = c[1]}

\* The work-grid locations <<cell, direction>> these kernel calls write.
KernelWrites(first, last) ==
    {loc \in Cells \X Dirs :
        /\ ~IsSolid(loc[1][1], loc[1][2])
        /\ StreamSource(loc[1], loc[2]) \in KernelCells(first, last)}

\* The work grid after the kernel calls of the columns first .. last - 1 in pass p.
AfterKernel(work, first, last, p) ==
    LET from == KernelCells(first, last)
        out == [s \in from |-> Collided(s, p)]
    IN  [c \in Cells |->
            IF IsSolid(c[1], c[2]) THEN work[c]
            ELSE [d \in Dirs |->
                    IF StreamSource(c, d) \in from
                    THEN out[StreamSource(c, d)]
                    ELSE work[c][d]]]

\* The cells DealWithInletOutlet(latticeWork, startCol, endCol, ...) treats.
HandledCells(first, last) ==
    {c \in Cells : IsEdgeCell(c) /\ first <= c[2] /\ c[2] < last}

\* The work-grid locations it writes.
HandlerWrites(first, last) == HandledCells(first, last) \X Dirs

\* The work grid after DealWithInletOutlet in pass p: the distribution of each
\* treated cell is rebuilt from the values the kernel streamed into it.
AfterInletOutlet(work, first, last, p) ==
    [c \in Cells |->
        IF c \in HandledCells(first, last)
        THEN UniformCell(IF \A d \in Dirs : work[c][d] = <<"kern", p % 3>>
                         THEN <<"io", p % 3>> ELSE <<"bad", p % 3>>)
        ELSE work[c]]

(***************************************************************************)
(* The configurations explored.  The obstacle mask is a rows x cols        *)
(* boolean matrix, held as the set of its set entries; an empty mask has   *)
(* no rows and no columns.  More than two workers are explored on the      *)
(* widest grid of one row, without fluid cells.                            *)
(***************************************************************************)
Dims == {<<0, 0>>} \cup ((1 .. MaxRows) \X (1 .. MaxCols))

\* The configuration that is followed through the warm-up interval.
LongRun ==
    /\ numThreads = 1 /\ rows = 1 /\ cols = 2
    /\ boundaryConditions = "Periodic" /\ latticeObstacles = {}

\* Cap of the step counter (the loop of Simulate() is unbounded).
StepCap ==
    IF LongRun THEN Warmup + 2 * MaxRefresh + 1
    ELSE IF warmedUp THEN 2 * MaxRefresh + 1 ELSE MaxSteps

\* The state after the constructor, for an obstacle mask out of Masks.
Constructed(anyMask) ==
    /\ numThreads \in 0 .. MaxThreads
    /\ \E d \in Dims : rows = d[1] /\ cols = d[2]
    /\ boundaryConditions \in {"BounceBack", "Periodic"}
    /\ latticeObstacles \in IF anyMask THEN SUBSET Cells ELSE {{}, {<<1, 1>>} \cap Cells}
    /\ refreshSteps = MaxRefresh
    /\ simulate = TRUE
    /\ wakeup = <<>>
    /\ processed = 0
    /\ pc = "idle"
    /\ ret = "none"
    /\ step = 0 /\ t = 0 /\ strideStart = 0 /\ workStride = 0
    /\ wpc = [i \in ThreadIds |-> "none"]
    /\ startCol = [i \in ThreadIds |-> 0]
    /\ endCol = [i \in ThreadIds |-> 0]
    /\ lattice = <<>>
    /\ latticeWork = <<>>
    /\ results = <<>>
    /\ resMutex = "free"
    /\ rj = 0
    /\ rpc = "idle"
    /\ snap = <<>>
    /\ signals = 0
    /\ vx = "none" /\ vy = "none"
    /\ passes = [i \in ThreadIds |-> 0]
    /\ stopWakes = [i \in ThreadIds |-> 0]
    /\ stopSwaps = 0 /\ stopWakeUps = 0
    /\ sinceResults = 0 /\ warmedUp = FALSE

\* The result types.
ResultsTypes == {"Density", "Speed", "Vorticity"}

Init ==
    /\ Constructed(FALSE)
    /\ resultsType = "Density"
    /\ numThreads > 2 => rows = 1 /\ cols = MaxCols
    /\ numThreads > 2 => boundaryConditions = "BounceBack"

(***************************************************************************)
(* The barrier.                                                            *)
(***************************************************************************)
\* WakeUp(): every wake flag true (under mw), then notify_all.
WakeUpFlags(w) == [i \in DOMAIN w |-> TRUE]

\* A wait that returns on the first signal.
DataReadyOnFirstSignal == processed >= 1

\* The predicate WaitForData() waits for.
DataReady == processed = numThreads

\* A wait that does not look at the wake flag.
WorkReadyUnflagged(tid) == tid \in DOMAIN wakeup

\* The predicate WaitForWork(tid) waits for.
WorkReady(tid) == tid \in DOMAIN wakeup /\ wakeup[tid]

\* ++processed of SignalMoreData().
Signalled(p) == p + 1

(***************************************************************************)
(* The results lock: std::lock_guard<std::mutex> on resMutex.              *)
(***************************************************************************)
\* lock(): returns once the mutex is free, the caller owning it.
Lock(who) == resMutex = "free" /\ resMutex' = who

\* unlock() at the end of the guard's scope.
Unlock(who) == resMutex' = IF resMutex = who THEN "free" ELSE resMutex

(***************************************************************************)
(* The external control surface: the flag is cleared at any time, and set  *)
(* again only while no Simulate() is running.                              *)
(***************************************************************************)
StopSimulation ==
    /\ simulate = TRUE
    /\ simulate' = FALSE
    /\ UNCHANGED <<config, history, barrier, pc, locals, workers, grids, output, reader>>

RestartSimulation ==
    /\ simulate = FALSE
    /\ pc = "idle"
    /\ simulate' = TRUE
    /\ UNCHANGED <<config, history, barrier, pc, locals, workers, grids, output, reader>>

(***************************************************************************)
(* The external reader of the Results Matrix: it copies the matrix while   *)
(* it holds resMutex and keeps nothing past the critical section.          *)
(***************************************************************************)
ReaderLock ==
    /\ rpc = "idle"
    /\ Lock("reader")
    /\ snap' = results
    /\ rpc' = "read"
    /\ UNCHANGED <<config, history, simulate, barrier, pc, locals, workers, grids, results, rj>>

ReaderUnlock ==
    /\ rpc = "read"
    /\ Unlock("reader")
    /\ snap' = <<>>
    /\ rpc' = "idle"
    /\ UNCHANGED <<config, history, simulate, barrier, pc, locals, workers, grids, results, rj>>

(***************************************************************************)
(* The controller thread: Simulate().                                      *)
(***************************************************************************)
\* A caller calls Simulate(); Init() is its first statement.
CallSimulate ==
    /\ pc = "idle"
    /\ pc' = "InitLock"
    /\ ret' = "Simulate"
    /\ UNCHANGED <<config, history, simulate, barrier, step, t, strideStart, workStride, workers,
                   grids, output, reader>>

\* A caller calls Init() itself.
CallInit ==
    /\ pc = "idle"
    /\ pc' = "InitLock"
    /\ ret' = "caller"
    /\ UNCHANGED <<config, history, simulate, barrier, step, t, strideStart, workStride, workers,
                   grids, output, reader>>

\* Init(): std::lock_guard<std::mutex> lock(resMutex)
InitLock ==
    /\ pc = "InitLock"
    /\ Lock("Simulate")
    /\ pc' = "InitResults"
    /\ UNCHANGED <<config, history, simulate, barrier, locals, workers, grids, results, rj, reader>>

\* Init(): results = Zero(rows, cols), and the end of the guard's scope
InitResults ==
    /\ pc = "InitResults"
    /\ results' = ZeroMatrix
    /\ Unlock("Simulate")
    /\ pc' = "InitGrid"
    /\ UNCHANGED <<config, history, simulate, barrier, locals, workers, grids, rj, reader>>

\* Init(): lattice = CellLattice(rows, cols) and the loop over its cells
InitGrid ==
    /\ pc = "InitGrid"
    /\ lattice' = InitLattice
    /\ pc' = IF ret = "Simulate" THEN "Setup" ELSE "idle"
    /\ ret' = "none"
    /\ UNCHANGED <<config, history, simulate, barrier, step, t, strideStart, workStride, workers,
                   latticeWork, output, reader>>

\* The per-worker counters of a run that has not started.
NoPasses == [i \in ThreadIds |-> 0]

\* A start of a run that leaves processed as the last run left it.
SetupKeepsCounter ==
    /\ pc = "Setup"
    /\ latticeWork' = [c \in Cells |-> DefaultCell]
    /\ signals' = 0
    /\ wakeup' = [i \in 0 .. (numThreads - 1) |-> FALSE]
    /\ wpc' = [i \in ThreadIds |-> "none"]
    /\ pc' = "Stride"
    /\ passes' = NoPasses /\ stopWakes' = NoPasses
    /\ stopSwaps' = 0 /\ stopWakeUps' = 0
    /\ UNCHANGED <<config, lookups, cadence, simulate, processed, locals, startCol, endCol,
                   lattice, output, reader>>

\* latticeWork, theThreads(numThreads), processed = 0, wakeup.resize, all false.
Setup ==
    /\ pc = "Setup"
    /\ latticeWork' = [c \in Cells |-> DefaultCell]
    /\ processed' = 0
    /\ signals' = 0
    /\ wakeup' = [i \in 0 .. (numThreads - 1) |-> FALSE]
    /\ wpc' = [i \in ThreadIds |-> "none"]
    /\ pc' = "Stride"
    /\ passes' = NoPasses /\ stopWakes' = NoPasses
    /\ stopSwaps' = 0 /\ stopWakeUps' = 0
    /\ UNCHANGED <<config, lookups, cadence, simulate, locals, startCol, endCol, lattice,
                   output, reader>>

\* workStride = lattice.cols() / numThreads.  With numThreads = 0 the division
\* is undefined: the process is stopped by the trap, or goes on with any value.
Stride ==
    /\ pc = "Stride"
    /\ \/ /\ numThreads > 0
          /\ workStride' = cols \div numThreads
          /\ pc' = "Spawn"
       \/ /\ numThreads = 0
          /\ \/ pc' = "Trapped" /\ UNCHANGED workStride
             \/ pc' = "Spawn" /\ workStride' \in 0 .. MaxCols
    /\ t' = 0
    /\ strideStart' = 0
    /\ UNCHANGED <<config, history, simulate, barrier, ret, step, workers, grids, output, reader>>

\* A partition whose last range is not extended to the last column.
EndOfRangeNoRemainder(tid, start) == start + workStride

\* The end column handed to thread tid, whose range starts at column start.
EndOfRange(tid, start) ==
    IF tid = numThreads - 1 THEN cols ELSE start + workStride

\* One iteration of the loop that creates the threads.
Spawn ==
    /\ pc = "Spawn"
    /\ IF t < numThreads
       THEN /\ wpc' = [wpc EXCEPT ![t] = "WaitForWork"]
            /\ startCol' = [startCol EXCEPT ![t] = strideStart]
            /\ endCol' = [endCol EXCEPT ![t] = EndOfRange(t, strideStart)]
            /\ strideStart' = strideStart + workStride
            /\ t' = t + 1
            /\ UNCHANGED <<pc, step>>
       ELSE /\ pc' = "WakeUp"
            /\ step' = 0
            /\ UNCHANGED <<wpc, startCol, endCol, strideStart, t>>
    /\ UNCHANGED <<config, history, simulate, barrier, ret, workStride, grids, output, reader>>

\* WakeUp() at the top of the step loop.
WakeUp ==
    /\ pc = "WakeUp"
    /\ wakeup' = WakeUpFlags(wakeup)
    /\ pc' = "WaitForData"
    /\ stopWakeUps' = IF simulate THEN stopWakeUps ELSE stopWakeUps + 1
    /\ UNCHANGED <<config, lookups, cadence, passes, stopWakes, stopSwaps, simulate, processed,
                   signals, locals, workers, grids, output, reader>>

\* WaitForData(): returns once processed == numThreads, and resets it.
WaitForData ==
    /\ pc = "WaitForData"
    /\ DataReady
    /\ processed' = 0
    /\ signals' = 0
    /\ pc' = "CheckSimulate"
    /\ UNCHANGED <<config, history, simulate, wakeup, locals, workers, grids, output, reader>>

\* A loop that goes on to the swap whatever the flag holds.
CheckSimulateIgnored ==
    /\ pc = "CheckSimulate"
    /\ step < StepCap /\ pc' = "Swap"
    /\ UNCHANGED <<config, history, simulate, barrier, ret, step, t, strideStart, workStride,
                   workers, grids, output, reader>>

\* if (!simulate) break;  The break ends the scope of step, and with it what
\* is counted over the iterations of the loop.
CheckSimulate ==
    /\ pc = "CheckSimulate"
    /\ IF simulate
       THEN /\ step < StepCap /\ pc' = "Swap"
            /\ UNCHANGED <<step, passes, cadence>>
       ELSE /\ pc' = "FinalWakeUp" /\ step' = 0 /\ passes' = NoPasses
            /\ sinceResults' = 0 /\ warmedUp' = FALSE
    /\ UNCHANGED <<config, lookups, stopWakes, stopSwaps, stopWakeUps, simulate,
                   barrier, ret, t, strideStart, workStride, workers, grids, output, reader>>

\* lattice.swap(latticeWork)
Swap ==
    /\ pc = "Swap"
    /\ lattice' = latticeWork
    /\ latticeWork' = lattice
    /\ pc' = "Results"
    /\ stopSwaps' = IF simulate THEN stopSwaps ELSE stopSwaps + 1
    /\ UNCHANGED <<config, lookups, cadence, passes, stopWakes, stopWakeUps, simulate, barrier,
                   locals, workers, output, reader>>

\* A warm-up interval that ends one iteration early.
ShouldGetResultsEarly == step >= Warmup /\ step % refreshSteps = 0

(***************************************************************************)
(* step is an unsigned int of StepBits bits.  It is held as the signed     *)
(* integer with the same bit pattern: the values up to 2^(StepBits-1) - 1  *)
(* are themselves, and a value u above them is held as u - 2^StepBits, so  *)
(* that 2^StepBits - 1 is held as -1 and its successor is 0.               *)
(***************************************************************************)
\* The largest value that is held as itself: 2^(StepBits - 1) - 1.
SignedMax == (2^(StepBits - 2) - 1) * 2 + 1

\* 2^StepBits modulo r.
WidthMod(r) == ((2^(StepBits \div 2) % r) * (2^(StepBits \div 2) % r)) % r

\* step > n of unsigned values, n held as itself.
StepAbove(s, n) == s < 0 \/ s > n

\* step % r of unsigned values.
StepMod(s, r) == IF s >= 0 THEN s % r ELSE ((s % r) + WidthMod(r)) % r

\* The condition under which the step loop calls GetResults().
ShouldGetResults == StepAbove(step, Warmup) /\ StepMod(step, refreshSteps) = 0

\* ++step of the step loop, modulo 2^StepBits.
NextStep(s) == IF s = SignedMax THEN 0 - SignedMax - 1 ELSE s + 1

\* if (step > 2000 && step % refreshSteps == 0) GetResults(); else ++step
Results ==
    /\ pc = "Results"
    /\ IF ShouldGetResults
       THEN /\ pc' = "GetResultsLock" /\ UNCHANGED step
            /\ sinceResults' = 0
       ELSE /\ pc' = "WakeUp" /\ step' = NextStep(step)
            /\ sinceResults' = IF warmedUp \/ StepAbove(step, Warmup)
                               THEN sinceResults + 1 ELSE 0
    /\ warmedUp' = (warmedUp \/ StepAbove(step, Warmup))
    /\ UNCHANGED <<config, lookups, counts, simulate, barrier, ret, t, strideStart, workStride,
                   workers, grids, output, reader>>

\* An extraction that does not take the results lock.
GetResultsUnlocked ==
    /\ pc = "GetResultsLock"
    /\ rj' = 0
    /\ pc' = "GetResultsLoop"
    /\ UNCHANGED <<config, history, simulate, barrier, locals, workers, grids, results, resMutex,
                   reader>>

\* GetResults() applied to the grid Init() built.
CallGetResults ==
    /\ pc = "idle"
    /\ DOMAIN lattice = Cells /\ DOMAIN results = Cells
    /\ pc' = "GetResultsLock"
    /\ ret' = "caller"
    /\ UNCHANGED <<config, history, simulate, barrier, step, t, strideStart, workStride,
                   workers, grids, output, reader>>

\* GetResults(): std::lock_guard<std::mutex> lock(resMutex)
GetResultsLock ==
    /\ pc = "GetResultsLock"
    /\ Lock("Simulate")
    /\ rj' = 0
    /\ pc' = "GetResultsLoop"
    /\ UNCHANGED <<config, history, simulate, barrier, locals, workers, grids, results, reader>>

\* The cell the loops of GetResults() (j outer, i inner) reach n-th.
ResultsCell(n) == <<n % rows, n \div rows>>

\* The value GetResults() stores for a cell in iteration s of the step loop.
Extracted(s) == s

\* case Vorticity: the cell read as lattice(i + 1, j) or lattice(0, j).
RowNeighbour(i, j) == IF i < rows - 1 THEN <<i + 1, j>> ELSE <<0, j>>

\* case Vorticity: the cell read as lattice(i, j - 1) or lattice(i, cols - 1),
\* or the pair (0, 0) that stands for none.
ColNeighbour(i, j) ==
    IF j > 0 THEN <<i, j - 1>>
    ELSE IF boundaryConditions = "Periodic" THEN <<i, cols - 1>> ELSE "zero"

\* GetResults(): one iteration of the loops over the cells; past the last one
\* the end of the guard's scope and the return: to the step loop and its
\* ++step, or to another caller.
GetResultsLoop ==
    /\ pc = "GetResultsLoop"
    /\ IF rj < rows * cols
       THEN /\ results' = [results EXCEPT ![ResultsCell(rj)] = Extracted(step)]
            /\ rj' = rj + 1
            /\ IF resultsType = "Vorticity"
               THEN /\ vx' = RowNeighbour(ResultsCell(rj)[1], ResultsCell(rj)[2])
                    /\ vy' = ColNeighbour(ResultsCell(rj)[1], ResultsCell(rj)[2])
               ELSE UNCHANGED lookups
            /\ UNCHANGED <<pc, ret, step, resMutex>>
       ELSE /\ Unlock("Simulate")
            /\ rj' = 0
            /\ vx' = "none" /\ vy' = "none"
            /\ IF ret = "caller"
               THEN pc' = "idle" /\ ret' = "none" /\ UNCHANGED step
               ELSE pc' = "WakeUp" /\ step' = NextStep(step) /\ UNCHANGED ret
            /\ UNCHANGED results
    /\ UNCHANGED <<config, counts, cadence, simulate, barrier, t, strideStart, workStride,
                   workers, grids, reader>>

\* A loop exit without the WakeUp() that follows the loop.
FinalWakeUpOmitted ==
    /\ pc = "FinalWakeUp"
    /\ pc' = "Join"
    /\ t' = 0
    /\ UNCHANGED <<config, history, simulate, barrier, ret, step, strideStart, workStride, workers,
                   grids, output, reader>>

\* WakeUp() after the loop.
FinalWakeUp ==
    /\ pc = "FinalWakeUp"
    /\ wakeup' = WakeUpFlags(wakeup)
    /\ pc' = "Join"
    /\ t' = 0
    /\ stopWakeUps' = IF simulate THEN stopWakeUps ELSE stopWakeUps + 1
    /\ UNCHANGED <<config, lookups, cadence, passes, stopWakes, stopSwaps, simulate, processed,
                   signals, ret, step, strideStart, workStride, workers, grids, output, reader>>

\* One iteration of the loop that joins the threads; Simulate() returns after
\* it, and its locals are gone.
Join ==
    /\ pc = "Join"
    /\ IF t < numThreads
       THEN /\ wpc[t] = "done"
            /\ t' = t + 1
            /\ UNCHANGED <<pc, step, strideStart, workStride, latticeWork, counts>>
       ELSE /\ pc' = "idle"
            /\ t' = 0 /\ step' = 0 /\ strideStart' = 0 /\ workStride' = 0
            /\ latticeWork' = <<>>
            /\ passes' = NoPasses /\ stopWakes' = NoPasses
            /\ stopSwaps' = 0 /\ stopWakeUps' = 0
    /\ UNCHANGED <<config, lookups, cadence, simulate, barrier, ret, workers, lattice, output,
                   reader>>

(***************************************************************************)
(* A worker thread: CollideAndStream(tid, &latticeWork, startCol, endCol). *)
(***************************************************************************)
\* WaitForWork(tid): returns once wakeup[tid] is set, and clears it.
\* A wait that returns without clearing the flag it waited for.
WaitForWorkFlagKept(tid) ==
    /\ wpc[tid] = "WaitForWork"
    /\ WorkReady(tid)
    /\ wpc' = [wpc EXCEPT ![tid] = "CheckFlag"]
    /\ UNCHANGED <<config, history, simulate, barrier, pc, locals, startCol, endCol, grids, output,
                   reader>>

WaitForWork(tid) ==
    /\ wpc[tid] = "WaitForWork"
    /\ WorkReady(tid)
    /\ wakeup' = [wakeup EXCEPT ![tid] = FALSE]
    /\ wpc' = [wpc EXCEPT ![tid] = "CheckFlag"]
    /\ stopWakes' = [stopWakes EXCEPT ![tid] = IF simulate THEN @ ELSE @ + 1]
    /\ UNCHANGED <<config, lookups, cadence, passes, stopSwaps, stopWakeUps, simulate,
                   processed, signals, pc, locals, startCol, endCol, grids, output, reader>>

\* A worker that starts its pass whatever the flag holds.
CheckFlagIgnored(tid) ==
    /\ wpc[tid] = "CheckFlag"
    /\ wpc' = [wpc EXCEPT ![tid] = "Kernel"]
    /\ UNCHANGED <<config, history, simulate, barrier, pc, locals, startCol, endCol, grids, output,
                   reader>>

\* if (!simulate) { SignalMoreData(); break; }
CheckFlag(tid) ==
    /\ wpc[tid] = "CheckFlag"
    /\ wpc' = [wpc EXCEPT ![tid] = IF simulate THEN "Kernel" ELSE "SignalExit"]
    /\ UNCHANGED <<config, history, simulate, barrier, pc, locals, startCol, endCol, grids, output,
                   reader>>

\* The pass a worker computes while the step loop is in iteration s.
PassOf(s) == s + 1

\* The loop over the columns startCol .. endCol - 1 with its kernel calls.
Kernel(tid) ==
    /\ wpc[tid] = "Kernel"
    /\ latticeWork' = AfterKernel(latticeWork, startCol[tid], endCol[tid], PassOf(step))
    /\ wpc' = [wpc EXCEPT ![tid] = "InletOutlet"]
    /\ passes' = [passes EXCEPT ![tid] = @ + 1]
    /\ UNCHANGED <<config, lookups, cadence, stopWakes, stopSwaps, stopWakeUps, simulate,
                   barrier, pc, locals, startCol, endCol, lattice, output, reader>>

\* DealWithInletOutlet(latticeWork, startCol, endCol, ...)
InletOutlet(tid) ==
    /\ wpc[tid] = "InletOutlet"
    /\ latticeWork' = AfterInletOutlet(latticeWork, startCol[tid], endCol[tid], PassOf(step))
    /\ wpc' = [wpc EXCEPT ![tid] = "Signal"]
    /\ UNCHANGED <<config, history, simulate, barrier, pc, locals, startCol, endCol, lattice, output,
                   reader>>

\* SignalMoreData() at the end of a step.
Signal(tid) ==
    /\ wpc[tid] = "Signal"
    /\ processed' = Signalled(processed)
    /\ signals' = signals + 1
    /\ wpc' = [wpc EXCEPT ![tid] = "WaitForWork"]
    /\ UNCHANGED <<config, history, simulate, wakeup, pc, locals, startCol, endCol, grids, output,
                   reader>>

\* SignalMoreData() and break, on a false flag.
SignalExit(tid) ==
    /\ wpc[tid] = "SignalExit"
    /\ processed' = Signalled(processed)
    /\ signals' = signals + 1
    /\ wpc' = [wpc EXCEPT ![tid] = "done"]
    /\ UNCHANGED <<config, history, simulate, wakeup, pc, locals, startCol, endCol, grids, output,
                   reader>>

Worker(tid) ==
    \/ WaitForWork(tid)
    \/ CheckFlag(tid)
    \/ Kernel(tid)
    \/ InletOutlet(tid)
    \/ Signal(tid)
    \/ SignalExit(tid)

Controller ==
    \/ CallSimulate
    \/ CallInit
    \/ InitLock
    \/ InitResults
    \/ InitGrid
    \/ Setup
    \/ Stride
    \/ Spawn
    \/ WakeUp
    \/ WaitForData
    \/ CheckSimulate
    \/ Swap
    \/ Results
    \/ GetResultsLock
    \/ GetResultsLoop
    \/ FinalWakeUp
    \/ Join

Reader ==
    \/ ReaderLock
    \/ ReaderUnlock

Next ==
    \/ Controller
    \/ \E tid \in ThreadIds : Worker(tid)
    \/ StopSimulation
    \/ RestartSimulation

\* The threads of the program and the control surface.
Spec == Init /\ [][Next]_vars

\* Every thread that can take a step eventually takes one; the flag is under
\* no obligation to change.
Fairness ==
    /\ WF_vars(Controller)
    /\ \A tid \in ThreadIds : WF_vars(Worker(tid))

\* The grids of at most one row: the barrier does not read the grids.
InitOneRow == Init /\ rows <= 1

SpecFair == InitOneRow /\ [][Next]_vars /\ Fairness

\* The same with the external reader, for the configuration that is followed
\* through the warm-up interval.
NextWithReader == Next \/ Reader

InitLongRun == Init /\ LongRun

SpecReader == InitLongRun /\ [][NextWithReader]_vars

\* Init() alone, called for every obstacle mask.
NextInit ==
    \/ CallInit
    \/ InitLock
    \/ InitResults
    \/ InitGrid

InitAnyMask == Constructed(TRUE) /\ numThreads = 1 /\ resultsType = "Density"

SpecInit == InitAnyMask /\ [][NextInit]_vars

(***************************************************************************)
(* The step loop shortly before its counter wraps: the state of a run of   *)
(* one worker on the grid of one solid cell when the controller is about   *)
(* to call WakeUp() in the iteration 2 * MaxRefresh + 1 steps before the   *)
(* counter returns to 0.  The two grids have been swapped once per         *)
(* iteration, the last GetResults() was called in the last iteration whose *)
(* step was a multiple of refreshSteps, and the passes are held like step. *)
(***************************************************************************)
WrapStart == 0 - (2 * MaxRefresh + 1)

InitWrap ==
    /\ numThreads = 1 /\ rows = 1 /\ cols = 1
    /\ boundaryConditions = "BounceBack" /\ latticeObstacles = {}
    /\ refreshSteps = MaxRefresh /\ resultsType = "Density"
    /\ simulate = TRUE
    /\ wakeup = [i \in 0 .. 0 |-> FALSE]
    /\ processed = 0 /\ signals = 0
    /\ pc = "WakeUp" /\ ret = "none"
    /\ step = WrapStart
    /\ t = 1 /\ strideStart = 1 /\ workStride = 1
    /\ wpc = [i \in ThreadIds |-> IF i = 0 THEN "WaitForWork" ELSE "none"]
    /\ startCol = [i \in ThreadIds |-> 0]
    /\ endCol = [i \in ThreadIds |-> IF i = 0 THEN 1 ELSE 0]
    /\ lattice = [c \in Cells |-> IF StepMod(WrapStart, 2) = 0 THEN ZeroCell ELSE DefaultCell]
    /\ latticeWork = [c \in Cells |-> IF StepMod(WrapStart, 2) = 0 THEN DefaultCell ELSE ZeroCell]
    /\ results = [c \in Cells |->
                    Extracted(WrapStart - 1 - StepMod(WrapStart - 1, MaxRefresh))]
    /\ resMutex = "free" /\ rj = 0
    /\ rpc = "idle" /\ snap = <<>>
    /\ vx = "none" /\ vy = "none"
    /\ passes = [i \in ThreadIds |-> IF i = 0 THEN WrapStart ELSE 0]
    /\ stopWakes = [i \in ThreadIds |-> 0]
    /\ stopSwaps = 0 /\ stopWakeUps = 0
    /\ sinceResults = StepMod(WrapStart - 1, MaxRefresh)
    /\ warmedUp = TRUE

SpecWrap == InitWrap /\ [][Next]_vars

\* Init() and then GetResults(), for every result type, every shape of the
\* grid and both boundary conditions.
NextVorticity ==
    \/ NextInit
    \/ CallGetResults
    \/ GetResultsLock
    \/ GetResultsLoop

InitVorticity == Constructed(FALSE) /\ numThreads = 1 /\ resultsType \in ResultsTypes

SpecVorticity == InitVorticity /\ [][NextVorticity]_vars

(***************************************************************************)
(* Properties.                                                             *)
(***************************************************************************)
\* The positions of the controller between the return of WaitForData() and the
\* WakeUp() of the next iteration.
AfterWaitForData == {"CheckSimulate", "Swap", "Results", "GetResultsLock", "GetResultsLoop"}

\* The positions of a worker between the return of WaitForWork() and the return
\* of SignalMoreData().
Computing == {"CheckFlag", "Kernel", "InletOutlet", "Signal", "SignalExit"}

\* A configuration error: no thread, more threads than columns, an empty mask.
ConfigError == numThreads = 0 \/ numThreads > cols \/ rows * cols = 0

\* Every thread of the run has been created.
Spawned == \A tid \in Threads : wpc[tid] # "none"

\* C1: with N >= 1 workers, whenever WaitForData() returns, exactly N calls of
\* SignalMoreData() have been made since processed was last set to 0, and
\* processed is 0 right after the return.
C1_BarrierCount ==
    [][(WaitForData /\ numThreads >= 1) => (signals = numThreads /\ processed' = 0)]_vars

\* C1: WaitForData() has returned in the second iteration of a run of two workers.
C1_Witness == pc = "CheckSimulate" /\ numThreads = 2 /\ step = 1 /\ processed = 0

\* C2: while the controller is between the return of WaitForData() and the next
\* WakeUp() (the swap and the extraction of the results are there), no worker is
\* between the return of WaitForWork() and its SignalMoreData(), and no wake
\* flag is set; at the swap and after it every worker waits in WaitForWork().
C2_StepOrdering ==
    /\ pc \in AfterWaitForData =>
          \A tid \in Threads : wpc[tid] \notin Computing /\ wpc[tid] # "none" /\ ~wakeup[tid]
    /\ pc \in AfterWaitForData \ {"CheckSimulate"} =>
          \A tid \in Threads : wpc[tid] = "WaitForWork"

\* C2: the swap of the second iteration of a run of two workers is about to
\* execute.
C2_Witness == pc = "Swap" /\ numThreads = 2 /\ step = 1 /\ lattice # latticeWork

\* A running Simulate(): the controller is past the call and has not returned.
Running == pc \notin {"idle", "Trapped"} /\ ret # "caller"

\* Simulate() has returned, every worker having left its loop.
Returned == pc = "idle" /\ \A tid \in Threads : wpc[tid] = "done"

\* C3: with N >= 1 workers, once the flag is false while Simulate() runs, every
\* worker leaves its loop, every join completes and Simulate() returns.
C3_Shutdown == (Running /\ numThreads >= 1 /\ ~simulate) ~> Returned

\* C3: a run of two workers has returned after the flag was cleared.
C3_Witness == Returned /\ numThreads = 2 /\ ~simulate /\ lattice # <<>>

\* The columns of the range handed to worker tid.
Range(tid) == {j \in 0 .. (cols - 1) : startCol[tid] <= j /\ j < endCol[tid]}

\* C4: with 1 <= N <= cols, the ranges handed to the workers are contiguous,
\* pairwise disjoint and cover the columns 0 .. cols - 1; every worker but the
\* last gets cols \div N columns, the last one cols \div N + cols % N.
C4_Partition ==
    (Spawned /\ 1 <= numThreads /\ numThreads <= cols) =>
        /\ startCol[0] = 0
        /\ endCol[numThreads - 1] = cols
        /\ \A tid \in Threads :
              /\ tid < numThreads - 1 =>
                    /\ endCol[tid] - startCol[tid] = cols \div numThreads
                    /\ startCol[tid + 1] = endCol[tid]
              /\ tid = numThreads - 1 =>
                    endCol[tid] - startCol[tid] = (cols \div numThreads) + (cols % numThreads)
        /\ \A tid, other \in Threads : tid # other => Range(tid) \cap Range(other) = {}
        /\ \A j \in 0 .. (cols - 1) : \E tid \in Threads : j \in Range(tid)

\* C4: two workers share three columns, one with a remainder.
C4_Witness == Spawned /\ numThreads = 2 /\ cols = 3 /\ endCol[1] - startCol[1] = 2


\* The work-grid cells worker tid writes in one pass.
Writes(tid) ==
    KernelWrites(startCol[tid], endCol[tid]) \cup HandlerWrites(startCol[tid], endCol[tid])

\* Worker tid is in its pass: past the flag test, before SignalMoreData().
InPass(tid) == wpc[tid] \in {"Kernel", "InletOutlet"}

\* C5: a step of a worker's pass changes only work-grid cells of the worker's
\* own columns, two workers that are in their passes at the same time write no
\* common location of the work grid, and the current grid does not change
\* while a worker computes.
C5_OwnColumns ==
    [][/\ \A tid \in Threads :
             (Kernel(tid) \/ InletOutlet(tid)) =>
                 \A c \in Cells : latticeWork'[c] # latticeWork[c] => c[2] \in Range(tid)
       /\ \A tid, other \in Threads :
             (tid # other /\ InPass(tid) /\ InPass(other)) =>
                 Writes(tid) \cap Writes(other) = {}
       /\ (\E tid \in Threads : InPass(tid)) => lattice' = lattice
      ]_vars

\* The current grid is the one the execution leaves in which every kernel call
\* of a pass precedes the inlet/outlet handling of that pass.
AsInOrder == \A c \in Cells : ~IsSolid(c[1], c[2]) => UpToDate(lattice, c, PassOf(step))

\* C6: with 1 <= N <= cols workers on a grid with cells, the current grid after
\* a swap is the same in every interleaving: the one of the execution in which
\* the kernel calls of a pass precede its inlet/outlet handling.
C6_Deterministic == (pc = "Results" /\ ~ConfigError) => AsInOrder

\* C6: one interleaving of two workers on a Periodic grid of one row and two
\* columns leaves that grid after the second swap.
C6_Witness ==
    /\ pc = "Results" /\ step = 1 /\ AsInOrder
    /\ numThreads = 2 /\ rows = 1 /\ cols = 2 /\ boundaryConditions = "Periodic"

\* The matrix one complete GetResults() call of iteration s leaves.
Extraction(s) == [c \in Cells |-> Extracted(s)]

\* C7: the Results Matrix is written only while the writer holds resMutex, and
\* a reader that holds resMutex sees the matrix Init() left or the complete
\* output of one GetResults() call (or, as long as nothing was written, the
\* matrix without entries that the constructor left).
C7_ResultsLocked ==
    /\ pc \in {"InitResults", "GetResultsLoop"} => resMutex = "Simulate"
    /\ rpc = "read" =>
          /\ resMutex = "reader"
          /\ snap = results
          /\ \/ snap = ZeroMatrix
             \/ \E s \in 0 .. StepCap : snap = Extraction(s)
             \/ snap = <<>> /\ lattice = <<>>

\* C7: the reader holds the lock and reads a complete extraction while the
\* controller waits for the lock at the start of the next one.
C7_Witness ==
    /\ rpc = "read" /\ pc = "GetResultsLock"
    /\ snap # ZeroMatrix /\ \E s \in 0 .. StepCap : snap = Extraction(s) /\ s < step

\* C8: the step loop enters GetResults() only from its test after the swap, in
\* an iteration with step > 2000 and step a multiple of refreshSteps; it skips
\* GetResults() only in the other iterations; and GetResults() has returned
\* before the loop goes on to the next iteration and its WakeUp().
C8_Cadence ==
    [][/\ (pc' = "Results" /\ pc # "Results") => pc = "Swap"
       /\ (pc' = "GetResultsLock" /\ pc # "GetResultsLock") =>
             pc = "Results" /\ step > Warmup /\ step % refreshSteps = 0 /\ step' = step
       /\ (pc = "Results" /\ pc' = "WakeUp") =>
             ~(step > Warmup /\ step % refreshSteps = 0)
       /\ (pc = "Results" /\ pc' # "Results") => pc' \in {"GetResultsLock", "WakeUp"}
       /\ (pc \in {"GetResultsLock", "GetResultsLoop"} /\ pc' = "WakeUp") =>
             pc = "GetResultsLoop" /\ rj = rows * cols /\ step' = step + 1
       /\ (pc' = "WaitForData" /\ pc # "WaitForData") => pc = "WakeUp"
      ]_vars

\* C8: GetResults() has written every entry in an iteration after the warm-up.
C8_Witness ==
    pc = "GetResultsLoop" /\ rj = rows * cols /\ step > Warmup /\ step % refreshSteps = 0

\* C9: with a configuration error Simulate() goes no further than the start-up
\* that precedes the partition, and no worker thread is created.
C9_ConfigChecked ==
    ConfigError =>
        /\ pc \in {"idle", "InitLock", "InitResults", "InitGrid", "Setup", "Stride"}
        /\ \A tid \in ThreadIds : wpc[tid] = "none"

\* C10: when Init() returns, a cell is zero if the mask is set there or the
\* boundary condition is not Periodic and the row is the first or the last, every
\* other cell holds the Cell::Init() distribution, and the Results Matrix is all
\* zeros with the shape of the mask.
C10_InitResult ==
    [][InitGrid =>
          /\ DOMAIN lattice' = Cells
          /\ \A c \in Cells :
                IF \/ c \in latticeObstacles
                   \/ boundaryConditions # "Periodic" /\ (c[1] = 0 \/ c[1] = rows - 1)
                THEN lattice'[c] = UniformCell(<<"zero", 0>>)
                ELSE lattice'[c] = UniformCell(<<"init", 0>>)
          /\ DOMAIN results' = Cells
          /\ \A c \in Cells : results'[c] = 0
      ]_vars

\* C10: Init() has returned on a Periodic grid of three rows with one obstacle:
\* the obstacle is zero, the cells of the first and of the last row are not.
C10_Witness ==
    /\ pc = "idle" /\ boundaryConditions = "Periodic" /\ rows = 3 /\ cols = 2
    /\ latticeObstacles = {<<1, 1>>}
    /\ DOMAIN lattice = Cells
    /\ lattice[<<1, 1>>] = ZeroCell
    /\ lattice[<<0, 0>>] = InitialCell /\ lattice[<<2, 1>>] = InitialCell
    /\ results = ZeroMatrix

BeforeFirstWakeUp == pc = "Spawn" \/ (pc = "WakeUp" /\ step = 0)

\* C12: when the threads of a run are created, the current grid is the one
\* Init() builds, every wake flag is false and processed is 0, whatever the run
\* before left; no worker is past WaitForWork() before the first WakeUp() of the
\* run, and during the run processed counts the SignalMoreData() calls of the
\* run only.
C12_Reentrant ==
    /\ pc = "Spawn" =>
          /\ lattice = InitLattice
          /\ processed = 0
          /\ DOMAIN wakeup = Threads
          /\ \A tid \in Threads : ~wakeup[tid]
    /\ BeforeFirstWakeUp =>
          \A tid \in Threads : wpc[tid] \in {"none", "WaitForWork"} /\ ~wakeup[tid]
    /\ pc \in {"Spawn", "WakeUp", "WaitForData"} => processed = signals

\* C12: Simulate() is called again after a run of two workers that left a wake
\* flag set and processed at 1; Init() has run.
C12_Witness ==
    /\ pc = "Setup" /\ numThreads = 2 /\ lattice = InitLattice
    /\ processed = 1 /\ DOMAIN wakeup = Threads /\ \E tid \in Threads : wakeup[tid]
    /\ \A tid \in Threads : wpc[tid] = "done"

\* C13: in the Vorticity extraction the row neighbour of cell (i, j) is
\* (i + 1, j) and the column neighbour (i, j - 1); past the last row and before
\* the first column the lookup wraps around if the boundary condition is
\* Periodic, and takes no cell (a zero velocity) if it is not.
C13_VorticityNeighbours ==
    (resultsType = "Vorticity" /\ pc = "GetResultsLoop" /\ rj > 0) =>
        LET i == ResultsCell(rj - 1)[1]
            j == ResultsCell(rj - 1)[2]
        IN  /\ vx = IF i < rows - 1 THEN <<i + 1, j>>
                    ELSE IF boundaryConditions = "Periodic" THEN <<0, j>> ELSE "zero"
            /\ vy = IF j > 0 THEN <<i, j - 1>>
                    ELSE IF boundaryConditions = "Periodic" THEN <<i, cols - 1>> ELSE "zero"

\* C14: a wake-up lets a worker pass WaitForWork() once. A worker whose flag is
\* still set has not yet made the kernel pass of the iteration; at the swap and
\* until the next WakeUp() every worker has made exactly one kernel pass per
\* iteration; when WakeUp() is called every worker has made one pass per
\* completed iteration; and the pass counts of two workers never differ by more
\* than one.
C14_WakeUpOnce ==
    /\ \A a \in Threads : \A b \in Threads :
          passes[a] - passes[b] <= 1 /\ passes[b] - passes[a] <= 1
    /\ pc \in AfterWaitForData \ {"CheckSimulate"} =>
          \A tid \in Threads : passes[tid] = step + 1
    /\ pc = "WakeUp" => \A tid \in Threads : passes[tid] = step
    /\ pc \in {"WaitForData", "CheckSimulate"} =>
          \A tid \in Threads :
              /\ passes[tid] \in {step, step + 1}
              /\ wakeup[tid] => passes[tid] = step

\* C14: two workers have each made their second kernel pass and consumed the
\* second wake-up; the second swap is about to execute.
C14_Witness ==
    /\ pc = "Swap" /\ numThreads = 2 /\ step = 1
    /\ \A tid \in Threads : passes[tid] = 2 /\ ~wakeup[tid]

\* The workers whose kernel calls write a location of the cells that worker
\* tid's inlet/outlet handling treats.
StreamsInto(tid) ==
    {other \in Threads :
        KernelWrites(startCol[other], endCol[other])
            \cap HandlerWrites(startCol[tid], endCol[tid]) # {}}

\* C15: every fluid cell of column 0 and of column cols - 1 is treated by the
\* inlet/outlet handling of exactly one worker, the one whose range holds the
\* column; a worker whose range holds neither column treats no cell; and a
\* worker's inlet/outlet handling of an iteration runs only when every worker
\* whose kernel calls write into the cells it treats has completed the kernel
\* calls of that iteration.
C15_HandlerAfterKernel ==
    [][\A tid \in Threads :
          InletOutlet(tid) =>
              /\ \A c \in Cells :
                    IsEdgeCell(c) =>
                        \A w \in Threads :
                            c \in HandledCells(startCol[w], endCol[w]) <=> c[2] \in Range(w)
              /\ ({0, cols - 1} \cap Range(tid) = {}) =>
                    HandledCells(startCol[tid], endCol[tid]) = {}
              /\ \A other \in StreamsInto(tid) : passes[other] = PassOf(step)
      ]_vars

\* C16: with the flag false, a worker passes WaitForWork() at most once more,
\* on testing the flag it goes to its one SignalMoreData() call without a
\* kernel call, and then it has left its loop for good (the next Simulate()
\* creates new threads); the controller swaps at most once more and calls
\* WakeUp() at most twice more.
C16_BoundedShutdown ==
    [][/\ \A tid \in Threads :
             /\ stopWakes'[tid] <= 1
             /\ (CheckFlag(tid) /\ ~simulate) => wpc'[tid] = "SignalExit"
             /\ (wpc[tid] = "SignalExit" /\ wpc'[tid] # "SignalExit") =>
                    /\ wpc'[tid] = "done"
                    /\ signals' = signals + 1
                    /\ passes' = passes /\ latticeWork' = latticeWork
             /\ (wpc[tid] = "done" /\ pc # "Setup") => wpc'[tid] = "done"
       /\ stopSwaps' <= 1
       /\ stopWakeUps' <= 2
      ]_vars

\* C16: the flag was cleared between the flag test of the controller and the
\* swap; the controller has swapped once and called WakeUp() twice since, and
\* both workers have passed WaitForWork() once more and left their loops.
C16_Witness ==
    /\ pc = "Join" /\ numThreads = 2 /\ ~simulate
    /\ stopSwaps = 1 /\ stopWakeUps = 2
    /\ \A tid \in Threads : stopWakes[tid] = 1 /\ wpc[tid] = "done"

\* C17: when Simulate() has returned, every SignalMoreData() call of a worker
\* that left its loop has been counted and reset by a WaitForData() of the
\* controller: processed is 0.
C17_FinalDrain == Returned => processed = 0

\* C18: the flag not being set again during a run, the controller swaps only
\* when every worker has made the kernel calls and the inlet/outlet handling
\* of the iteration and waits again; on a false flag it leaves the loop
\* without a swap; a worker that finds the flag false writes nothing to the
\* work grid; and the current grid changes only in Init() and in a swap, so at
\* the return of Simulate() it is the grid of the last swap.
C18_NoPartialStep ==
    [][/\ Swap => \A tid \in Threads : passes[tid] = PassOf(step) /\ wpc[tid] = "WaitForWork"
       /\ (CheckSimulate /\ ~simulate) => pc' = "FinalWakeUp" /\ lattice' = lattice
       /\ \A tid \in Threads :
             (wpc[tid] \in {"CheckFlag", "SignalExit"} /\ wpc'[tid] # wpc[tid] /\ ~simulate) =>
                 latticeWork' = latticeWork
       /\ lattice' # lattice => Swap \/ InitGrid
      ]_vars

\* C18: the controller has left the loop on a false flag after one swap, with
\* a work grid on which one of the two workers made the pass of the second
\* iteration and the other found the flag false.
C18_Witness ==
    /\ pc = "FinalWakeUp" /\ numThreads = 2 /\ ~simulate /\ stopSwaps = 0
    /\ \E a, b \in Threads : wpc[a] = "WaitForWork" /\ wpc[b] = "done"
    /\ \E c \in Cells : ~IsSolid(c[1], c[2]) /\ lattice[c] = UniformCell(Expected(c, 1))
    /\ lattice # latticeWork

\* The kernel calls of one pass: <<tid, x, k>> is the call of worker tid for
\* column x and the k-th row of KernelRows.
KernelCalls ==
    UNION {{<<tid, x, k>> : x \in startCol[tid] .. (endCol[tid] - 1), k \in DOMAIN KernelRows} :
             tid \in Threads}

\* The cell (row, column) a kernel call is made for.
CalledCell(call) == <<KernelRows[call[3]], call[2]>>

\* C19: on a grid with rows >= 1 and cols >= 1 and with N >= 1 workers, the
\* kernel calls of the pass that precedes a swap are one call for every cell of
\* the grid, and no call for a cell outside the grid.
C19_KernelOncePerCell ==
    (pc = "Swap" /\ rows >= 1 /\ cols >= 1 /\ numThreads >= 1) =>
        /\ \A c \in Cells : Cardinality({call \in KernelCalls : CalledCell(call) = c}) = 1
        /\ \A call \in KernelCalls : CalledCell(call) \in Cells

\* C20: once an iteration past the warm-up has been made in a run, fewer than
\* refreshSteps iterations in a row go without a GetResults() call, so that at
\* most refreshSteps steps lie between two consecutive calls; also in the
\* iterations that follow the return of the step counter to 0.
C20_CadenceSustained == warmedUp => sinceResults < refreshSteps

=============================================================================
